---- MODULE Spec2Model ----
(***************************************************************************)
(* Model of the export-job pipeline (models/export_job.py,                 *)
(* repositories/export_repository.py, services/enhanced_export_service.py, *)
(* services/export_service.py, services/export_queue.py) and of the        *)
(* login / two-factor subsystem (services/auth_service.py,                 *)
(* services/two_factor_service.py, middleware/auth.py) of the outlier      *)
(* backend.  Time is counted in minutes.                                   *)
(***************************************************************************)
EXTENDS Integers, Sequences, FiniteSets, TLC

VARIABLES
    now,            \* wall clock (datetime.utcnow / datetime.now), minutes
    jobs,           \* export_jobs table: job id -> ExportJob row
    redis,          \* redis_client.data: job id -> export_job:<id> entry
    job_queue,      \* ExportQueueManager.job_queue (FIFO)
    running,        \* ExportQueueManager.running
    stopping,       \* position of the thread that called stop_workers
    workers,        \* ExportQueueManager worker threads: pc and local job_data
    threads,        \* ExportService.create_export_job.process_export threads
    created,        \* job ids already drawn by uuid4 (never drawn twice)
    jhist,          \* observations on job-store calls: last call, retries so far
    USERS,          \* auth_service.USERS
    PENDING_2FA,    \* auth_service.PENDING_2FA
    REFRESH_TOKENS, \* auth_service.REFRESH_TOKENS
    rate_limit_storage, \* TwoFactorService.rate_limit_storage
    issued,         \* tokens handed out to clients so far
    reqs,           \* request threads running complete_2fa_login
    hist,           \* observations on logins: last outcome, failure streak
    tfa             \* observations on 2FA verification: last outcome, streaks

jobVars  == <<jobs, redis, job_queue, running, stopping, workers, threads, created, jhist>>
authVars == <<USERS, PENDING_2FA, REFRESH_TOKENS, rate_limit_storage, issued, reqs,
              hist, tfa>>
vars     == <<now, jobs, redis, job_queue, running, stopping, workers, threads, created, jhist,
              USERS, PENDING_2FA, REFRESH_TOKENS, rate_limit_storage, issued, reqs,
              hist, tfa>>

\* None of Python, for timestamps / numbers and for strings
NoTime == -1
NoStr  == "None"

(***************************************************************************)
(* Bounds                                                                  *)
(***************************************************************************)
MaxJobTime == 3000
MaxQueue   == 2
MaxRetried == 4

JobIds       == {"j1"}
CleanupJobIds == {"j1", "j2"}
JobOwners    == {1}
JobUsers     == {1, 2}
JobTimeSteps == {1500}
ProgressInputs == {-5, 50, 150}
FilePaths    == {"/tmp/x.csv"}
FileSizes    == {1024}
Filenames    == {"x.csv"}
Errors       == {"boom"}
WorkerIds    == {"w1", "w2"}
WorkerStages == {"start", "p30", "render", "write"}

(***************************************************************************)
(* models/export_job.py                                                    *)
(***************************************************************************)
PENDING    == "pending"
PROCESSING == "processing"
COMPLETED  == "completed"
FAILED     == "failed"
CANCELLED  == "cancelled"
ExportStatus == {PENDING, PROCESSING, COMPLETED, FAILED, CANCELLED}

\* arguments (status, progress, error_message) tried for update_job_status
StatusInputs == {<<PROCESSING, NoTime, NoStr>>, <<COMPLETED, 100, NoStr>>,
                 <<FAILED, NoTime, "boom">>}

DefaultMaxRetries == 3
ExpiryMinutes     == 1440

Min(a, b) == IF a < b THEN a ELSE b
Max(a, b) == IF a > b THEN a ELSE b

\* ExportJob(id, user_id, analysis_id, format, export_config) after INSERT
NewExportJob(user_id, t) ==
    [ user_id       |-> user_id,
      status        |-> PENDING,
      progress      |-> 0,
      filename      |-> NoStr,
      file_path     |-> NoStr,
      file_size     |-> NoTime,
      mime_type     |-> NoStr,
      error_message |-> NoStr,
      retry_count   |-> 0,
      max_retries   |-> DefaultMaxRetries,
      started_at    |-> NoTime,
      completed_at  |-> NoTime,
      expires_at    |-> t + ExpiryMinutes ]

can_retry(job) == job.status = FAILED /\ job.retry_count < job.max_retries

mark_started(job, t) ==
    [job EXCEPT !.status = PROCESSING, !.started_at = t, !.progress = 0]

mark_completed(job, file_path, file_size, filename, t) ==
    [job EXCEPT !.status = COMPLETED,
                !.completed_at = t,
                !.progress = 100,
                !.file_path = file_path,
                !.file_size = file_size,
                !.filename = IF filename # NoStr THEN filename ELSE @]

mark_failed(job, error_message, allow_retry, t) ==
    LET j1 == [job EXCEPT !.status = FAILED,
                          !.error_message = error_message,
                          !.progress = 100]
    IN  IF allow_retry /\ can_retry(j1)
        THEN [j1 EXCEPT !.retry_count = @ + 1]
        ELSE [j1 EXCEPT !.completed_at = t]

update_progress(job, progress) ==
    [job EXCEPT !.progress = Min(100, Max(0, progress))]

(***************************************************************************)
(* repositories/export_repository.py: operations on the export_jobs table  *)
(***************************************************************************)
create_export_job(tbl, job_id, user_id, t) ==
    (job_id :> NewExportJob(user_id, t)) @@ tbl

update_job_status(tbl, job_id, status, progress, error_message, t) ==
    IF job_id \notin DOMAIN tbl THEN tbl
    ELSE LET j0 == tbl[job_id]
             j1 == [j0 EXCEPT !.status = status,
                              !.progress = IF progress # NoTime THEN progress ELSE @,
                              !.error_message = IF error_message # NoStr THEN error_message ELSE @]
             j2 == IF status = PROCESSING /\ j1.started_at = NoTime
                   THEN [j1 EXCEPT !.started_at = t]
                   ELSE IF status \in {COMPLETED, FAILED} /\ j1.completed_at = NoTime
                        THEN [j1 EXCEPT !.completed_at = t]
                        ELSE j1
         IN  [tbl EXCEPT ![job_id] = j2]

mark_job_started(tbl, job_id, t) ==
    IF job_id \in DOMAIN tbl
    THEN [tbl EXCEPT ![job_id] = mark_started(@, t)]
    ELSE tbl

mark_job_completed(tbl, job_id, file_path, file_size, filename, mime_type, t) ==
    IF job_id \in DOMAIN tbl
    THEN [tbl EXCEPT ![job_id] =
            [mark_completed(@, file_path, file_size, filename, t)
                EXCEPT !.mime_type = IF mime_type # NoStr THEN mime_type ELSE @]]
    ELSE tbl

mark_job_failed(tbl, job_id, error_message, allow_retry, t) ==
    IF job_id \in DOMAIN tbl
    THEN [tbl EXCEPT ![job_id] = mark_failed(@, error_message, allow_retry, t)]
    ELSE tbl

update_job_progress(tbl, job_id, progress) ==
    IF job_id \in DOMAIN tbl
    THEN [tbl EXCEPT ![job_id] = update_progress(@, progress)]
    ELSE tbl

retry_job_keeps_error(tbl, job_id, t) ==
    IF job_id \in DOMAIN tbl /\ can_retry(tbl[job_id])
    THEN [tbl EXCEPT ![job_id] =
            [@ EXCEPT !.status = PENDING,
                      !.progress = 0,
                      !.started_at = NoTime,
                      !.completed_at = NoTime,
                      !.expires_at = t + ExpiryMinutes]]
    ELSE tbl

retry_job(tbl, job_id, t) ==
    IF job_id \in DOMAIN tbl /\ can_retry(tbl[job_id])
    THEN [tbl EXCEPT ![job_id] =
            [@ EXCEPT !.status = PENDING,
                      !.error_message = NoStr,
                      !.progress = 0,
                      !.started_at = NoTime,
                      !.completed_at = NoTime,
                      !.expires_at = t + ExpiryMinutes]]
    ELSE tbl

\* cancel_job returns None (FALSE here) for a missing job or another user's
\* job, and the job otherwise, whether or not it was cancelled; user_id 0
\* stands for "no requesting user" (falsy in Python, as None is)
cancel_job_returns(tbl, job_id, user_id) ==
    /\ job_id \in DOMAIN tbl
    /\ ~(user_id # 0 /\ tbl[job_id].user_id # user_id)

cancel_job(tbl, job_id, user_id, t) ==
    IF cancel_job_returns(tbl, job_id, user_id)
       /\ tbl[job_id].status \in {PENDING, PROCESSING}
    THEN [tbl EXCEPT ![job_id] =
            [@ EXCEPT !.status = CANCELLED, !.completed_at = t, !.progress = 100]]
    ELSE tbl

(***************************************************************************)
(* Redis entries export_job:<id> (db.redis_client); an entry is the dict   *)
(* that was last stored with setex                                         *)
(***************************************************************************)
NewJobData(job_id, user_id) ==
    [ id        |-> job_id,
      user_id   |-> user_id,
      status    |-> PENDING,
      progress  |-> 0,
      file_path |-> NoStr,
      filename  |-> NoStr,
      file_size |-> NoTime,
      error     |-> NoStr ]

setex(store, job_id, data) == (job_id :> data) @@ store

\* the poison pill that stop_workers puts into the queue (None)
PoisonPill == NewJobData(NoStr, 0)

MimeTypeOf(file_path) ==
    IF file_path = "/tmp/x.csv" THEN "text/csv" ELSE "application/octet-stream"

(***************************************************************************)
(* Observations on calls of the job store (history, not program state)     *)
(***************************************************************************)
JobHistInit ==
    [ last_op   |-> "none",     \* "mark_failed", "retry" or "other"
      last_job  |-> NoStr,
      allow     |-> FALSE,      \* the can_retry argument of mark_failed
      count     |-> 0,          \* what cleanup_expired_jobs returned
      remove_failed |-> FALSE,  \* os.remove raised for a file of the cleanup
      retries   |-> [j \in JobIds |-> 0] ]  \* times the job went from failed to pending

\* the observation after a call op on job j that took jobs to jobs'
JobObs(op, j, allow) ==
    [ last_op  |-> op,
      last_job |-> j,
      allow    |-> allow,
      count    |-> 0,
      remove_failed |-> FALSE,
      retries  |-> [k \in JobIds |->
                      IF /\ k \in DOMAIN jobs
                         /\ k \in DOMAIN jobs'
                         /\ jobs[k].status = FAILED
                         /\ jobs'[k].status = PENDING
                      THEN jhist.retries[k] + 1
                      ELSE jhist.retries[k]] ]

(***************************************************************************)
(* services/enhanced_export_service.py: database write, then Redis write   *)
(***************************************************************************)
CreateExportJobDb(j, u) ==
    /\ j \notin created
    /\ created' = created \cup {j}
    /\ jobs' = create_export_job(jobs, j, u, now)
    /\ redis' = setex(redis, j, NewJobData(j, u))
    /\ jhist' = JobObs("other", j, FALSE)
    /\ UNCHANGED <<now, job_queue, running, stopping, workers, threads>>
    /\ UNCHANGED authVars

UpdateJobProgressDb(j, p) ==
    /\ j \in created
    /\ jobs' = update_job_progress(jobs, j, p)
    /\ redis' = IF j \in DOMAIN redis
                THEN setex(redis, j, [redis[j] EXCEPT !.progress = p])
                ELSE redis
    /\ jhist' = JobObs("other", j, FALSE)
    /\ UNCHANGED <<now, job_queue, running, stopping, workers, threads, created>>
    /\ UNCHANGED authVars

MarkJobCompletedDb(j, file_path, file_size, filename) ==
    /\ j \in created
    /\ jobs' = mark_job_completed(jobs, j, file_path, file_size, filename,
                                  MimeTypeOf(file_path), now)
    /\ redis' = IF j \in DOMAIN redis
                THEN setex(redis, j,
                        [redis[j] EXCEPT !.status = COMPLETED,
                                         !.progress = 100,
                                         !.file_path = file_path,
                                         !.filename = filename,
                                         !.file_size = IF file_size > 0 THEN file_size ELSE @])
                ELSE redis
    /\ jhist' = JobObs("other", j, FALSE)
    /\ UNCHANGED <<now, job_queue, running, stopping, workers, threads, created>>
    /\ UNCHANGED authVars

MarkJobFailedDb(j, error_message) ==
    /\ j \in created
    /\ jobs' = mark_job_failed(jobs, j, error_message, TRUE, now)
    /\ redis' = IF j \in DOMAIN redis
                THEN setex(redis, j, [redis[j] EXCEPT !.status = FAILED,
                                                      !.error = error_message])
                ELSE redis
    /\ jhist' = JobObs("mark_failed", j, TRUE)
    /\ UNCHANGED <<now, job_queue, running, stopping, workers, threads, created>>
    /\ UNCHANGED authVars

CancelExportJob(j, u) ==
    /\ j \in created
    /\ jobs' = cancel_job(jobs, j, u, now)
    /\ redis' = IF cancel_job_returns(jobs, j, u) /\ j \in DOMAIN redis
                THEN setex(redis, j, [redis[j] EXCEPT !.status = CANCELLED])
                ELSE redis
    /\ jhist' = JobObs("other", j, FALSE)
    /\ UNCHANGED <<now, job_queue, running, stopping, workers, threads, created>>
    /\ UNCHANGED authVars

RetryExportJob(j, u) ==
    /\ j \in created
    /\ jhist.retries[j] < MaxRetried
    /\ LET applies == /\ j \in DOMAIN jobs
                      /\ jobs[j].user_id = u
                      /\ can_retry(jobs[j])
       IN  /\ jobs' = IF applies THEN retry_job(jobs, j, now) ELSE jobs
           /\ redis' = IF applies THEN setex(redis, j, NewJobData(j, u)) ELSE redis
    /\ jhist' = JobObs(IF j \in DOMAIN jobs /\ jobs[j].user_id = u THEN "retry" ELSE "other", j, FALSE)
    /\ UNCHANGED <<now, job_queue, running, stopping, workers, threads, created>>
    /\ UNCHANGED authVars

(***************************************************************************)
(* Direct calls of the repository (database only)                          *)
(***************************************************************************)
MarkJobStarted(j) ==
    /\ j \in created
    /\ jobs' = mark_job_started(jobs, j, now)
    /\ jhist' = JobObs("other", j, FALSE)
    /\ UNCHANGED <<now, redis, job_queue, running, stopping, workers, threads, created>>
    /\ UNCHANGED authVars

UpdateJobStatus(j, status, progress, error_message) ==
    /\ j \in created
    /\ jobs' = update_job_status(jobs, j, status, progress, error_message, now)
    /\ jhist' = JobObs("other", j, FALSE)
    /\ UNCHANGED <<now, redis, job_queue, running, stopping, workers, threads, created>>
    /\ UNCHANGED authVars

MarkJobFailed(j, error_message, allow_retry) ==
    /\ j \in created
    /\ jobs' = mark_job_failed(jobs, j, error_message, allow_retry, now)
    /\ jhist' = JobObs("mark_failed", j, allow_retry)
    /\ UNCHANGED <<now, redis, job_queue, running, stopping, workers, threads, created>>
    /\ UNCHANGED authVars

RetryJob(j) ==
    /\ j \in created
    /\ jhist.retries[j] < MaxRetried
    /\ jobs' = retry_job(jobs, j, now)
    /\ jhist' = JobObs("retry", j, FALSE)
    /\ UNCHANGED <<now, redis, job_queue, running, stopping, workers, threads, created>>
    /\ UNCHANGED authVars

CancelJob(j, u) ==
    /\ j \in created
    /\ jobs' = cancel_job(jobs, j, u, now)
    /\ jhist' = JobObs("other", j, FALSE)
    /\ UNCHANGED <<now, redis, job_queue, running, stopping, workers, threads, created>>
    /\ UNCHANGED authVars

(***************************************************************************)
(* services/export_service.py: create_export_job and its process_export    *)
(* thread, which writes the closure's job_data to Redis                    *)
(***************************************************************************)
CreateExportJob(j, u) ==
    /\ j \notin created
    /\ created' = created \cup {j}
    /\ redis' = setex(redis, j, NewJobData(j, u))
    /\ threads' = (j :> [pc |-> "start", job_data |-> NewJobData(j, u)]) @@ threads
    /\ UNCHANGED <<now, jobs, job_queue, running, stopping, workers, jhist>>
    /\ UNCHANGED authVars

ProcessExportStart(j) ==
    /\ j \in DOMAIN threads
    /\ threads[j].pc = "start"
    /\ LET d == [threads[j].job_data EXCEPT !.status = PROCESSING, !.progress = 50]
       IN  /\ redis' = setex(redis, j, d)
           /\ threads' = [threads EXCEPT ![j] = [pc |-> "render", job_data |-> d]]
    /\ UNCHANGED <<now, jobs, job_queue, running, stopping, workers, created, jhist>>
    /\ UNCHANGED authVars

\* render and file write returned
ProcessExportCompleted(j, file_path, filename) ==
    /\ j \in DOMAIN threads
    /\ threads[j].pc = "render"
    /\ LET d == [threads[j].job_data EXCEPT !.status = COMPLETED,
                                            !.progress = 100,
                                            !.file_path = file_path,
                                            !.filename = filename]
       IN  /\ redis' = setex(redis, j, d)
           /\ threads' = [threads EXCEPT ![j] = [pc |-> "done", job_data |-> d]]
    /\ UNCHANGED <<now, jobs, job_queue, running, stopping, workers, created, jhist>>
    /\ UNCHANGED authVars

\* render or file write raised: the except branch
ProcessExportFailed(j, e) ==
    /\ j \in DOMAIN threads
    /\ threads[j].pc = "render"
    /\ LET d == [threads[j].job_data EXCEPT !.status = FAILED, !.error = e]
       IN  /\ redis' = setex(redis, j, d)
           /\ threads' = [threads EXCEPT ![j] = [pc |-> "done", job_data |-> d]]
    /\ UNCHANGED <<now, jobs, job_queue, running, stopping, workers, created, jhist>>
    /\ UNCHANGED authVars

(***************************************************************************)
(* services/export_queue.py: ExportQueueManager                            *)
(***************************************************************************)
QueuedJobs(q) == Len(SelectSeq(q, LAMBDA d : d.id # NoStr))

QueueExportJob(j) ==
    /\ j \in DOMAIN redis
    /\ QueuedJobs(job_queue) < MaxQueue
    /\ job_queue' = Append(job_queue, NewJobData(j, redis[j].user_id))
    /\ UNCHANGED <<now, jobs, redis, running, stopping, workers, threads, created, jhist>>
    /\ UNCHANGED authVars

\* stop_workers, lines 42-46: running is cleared and one poison pill per
\* worker is put into the queue
StopWorkers ==
    /\ running
    /\ stopping = "idle"
    /\ running' = FALSE
    /\ stopping' = "joining"
    /\ job_queue' = job_queue \o [i \in 1..Cardinality(WorkerIds) |-> PoisonPill]
    /\ UNCHANGED <<now, jobs, redis, workers, threads, created, jhist>>
    /\ UNCHANGED authVars

\* stop_workers, lines 49-53: every worker.join(timeout=5) has returned,
\* because the thread exited or because the five seconds passed, wherever
\* the thread then is; the list is cleared
StopWorkersReturn ==
    /\ stopping = "joining"
    /\ stopping' = "returned"
    /\ UNCHANGED <<now, jobs, redis, job_queue, running, workers, threads, created, jhist>>
    /\ UNCHANGED authVars

\* while self.running:
loop_forever(is_running) == TRUE

loop_continues(is_running) == is_running

WorkerLoop(w) ==
    /\ workers[w].pc = "loop"
    /\ workers' = [workers EXCEPT ![w] =
            [pc |-> IF loop_continues(running) THEN "get" ELSE "stopped",
             job_data |-> PoisonPill, last |-> "none"]]
    /\ UNCHANGED <<now, jobs, redis, job_queue, running, stopping, threads, created, jhist>>
    /\ UNCHANGED authVars

\* job_data = self.job_queue.get(timeout=1)
WorkerGet(w) ==
    /\ workers[w].pc = "get"
    /\ IF job_queue = <<>>
       THEN /\ workers' = [workers EXCEPT ![w].pc = "loop"]
            /\ UNCHANGED job_queue
       ELSE /\ job_queue' = Tail(job_queue)
            /\ workers' = [workers EXCEPT ![w] =
                    IF Head(job_queue) = PoisonPill
                    THEN [pc |-> "stopped", job_data |-> PoisonPill, last |-> "none"]
                    ELSE [pc |-> "start", job_data |-> Head(job_queue), last |-> "none"]]
    /\ UNCHANGED <<now, jobs, redis, running, stopping, threads, created, jhist>>
    /\ UNCHANGED authVars

\* a step of _process_export_job that ends with redis_client.setex of the
\* worker's job_data d; last is the way the call ended when it ends here
WorkerStep(w, from, to, d, last) ==
    /\ workers[w].pc = from
    /\ redis' = setex(redis, d.id, d)
    /\ workers' = [workers EXCEPT ![w] =
            [pc |-> to, job_data |-> IF to = "loop" THEN PoisonPill ELSE d, last |-> last]]
    /\ UNCHANGED <<now, jobs, job_queue, running, stopping, threads, created, jhist>>
    /\ UNCHANGED authVars

WorkerStart(w) ==
    WorkerStep(w, "start", "p30",
        [workers[w].job_data EXCEPT !.status = PROCESSING, !.progress = 10], "none")

WorkerProgress30(w) ==
    WorkerStep(w, "p30", "render", [workers[w].job_data EXCEPT !.progress = 30], "none")

\* the export_to_<format> call returned
WorkerRendered(w) ==
    WorkerStep(w, "render", "write", [workers[w].job_data EXCEPT !.progress = 70], "none")

\* the file was written and os.path.getsize returned file_size
\* the record that reaches the store if the dict were written after line 144
completed_status_first(d, file_path, filename, file_size) ==
    [d EXCEPT !.status = COMPLETED]

\* lines 144-149: the worker's own dict gets every completion field, and
\* only then is it serialised and written (line 152)
completed_data(d, file_path, filename, file_size) ==
    [d EXCEPT !.status = COMPLETED,
              !.progress = 100,
              !.file_path = file_path,
              !.filename = filename,
              !.file_size = file_size]

WorkerCompleted(w, file_path, filename, file_size) ==
    WorkerStep(w, "write", "loop",
        completed_data(workers[w].job_data, file_path, filename, file_size), "completed")

\* a statement of the try block raised (a setex, the render, the file write
\* or getsize): the except branch stores the failure
WorkerFailed(w, from, e) ==
    WorkerStep(w, from, "loop",
        [workers[w].job_data EXCEPT !.status = FAILED, !.progress = 100, !.error = e],
        "failed")

\* a statement of the try block raised and the setex of the except branch
\* (line 165) raised as well: the exception leaves _process_export_job and
\* is caught and logged in _worker_loop (lines 74-75)
WorkerFailedUnrecorded(w, from) ==
    /\ workers[w].pc = from
    /\ workers' = [workers EXCEPT ![w] =
            [pc |-> "loop", job_data |-> PoisonPill, last |-> "escaped"]]
    /\ UNCHANGED <<now, jobs, redis, job_queue, running, stopping, threads, created, jhist>>
    /\ UNCHANGED authVars

\* ExportJob.get_expired_jobs: `expires_at < datetime.utcnow()`
get_expired_jobs(tbl, t) == {j \in DOMAIN tbl : tbl[j].expires_at < t}

\* the cleanup if a failing os.remove left the loop body before session.delete
cleanup_stops_at_remove(tbl, t, remove_fails) ==
    LET expired == get_expired_jobs(tbl, t)
        kept    == {j \in expired : tbl[j].file_path # NoStr /\ j \in remove_fails}
    IN  [ tbl   |-> [j \in DOMAIN tbl \ (expired \ kept) |-> tbl[j]],
          count |-> Cardinality(expired \ kept) ]

\* ExportJob.cleanup_expired_jobs(session, delete_files=True); remove_fails
\* are the jobs whose os.remove raises: the inner try logs it, and the record
\* is deleted and counted all the same
cleanup_expired_jobs(tbl, t, remove_fails) ==
    LET expired == get_expired_jobs(tbl, t)
    IN  [ tbl   |-> [j \in DOMAIN tbl \ expired |-> tbl[j]],
          count |-> Cardinality(expired) ]

\* ExportRepository.cleanup_expired_jobs
CleanupExpiredJobs(remove_fails) ==
    /\ LET r == cleanup_expired_jobs(jobs, now, remove_fails) IN
       /\ jobs' = r.tbl
       /\ jhist' = [JobObs("cleanup", NoStr, FALSE) EXCEPT
                        !.count = r.count,
                        !.remove_failed =
                            \E j \in remove_fails \cap get_expired_jobs(jobs, now) :
                                jobs[j].file_path # NoStr]
    /\ UNCHANGED <<now, redis, job_queue, running, stopping, workers, threads, created>>
    /\ UNCHANGED authVars

AdvanceJobTime(d) ==
    /\ now + d <= MaxJobTime
    /\ now' = now + d
    /\ UNCHANGED jobVars
    /\ UNCHANGED authVars

(***************************************************************************)
(* Login and two-factor subsystem: inputs                                  *)
(***************************************************************************)
MaxAuthTime == 30
BatchCount  == 2
MaxFailed   == 6
MaxSessions == 1

Usernames     == {"user"}
UnknownNames  == {"nobody"}
Passwords     == {"user123", "wrong"}
Secrets       == {"S1"}
BadCode       == "000000"
BackupBatches == {<<"B1", "B2">>, <<"B2", "B2">>}
AuthTimeSteps == {15}
TwoFactorTimeSteps == {5, 15}
VerifyCodes   == {"111111", BadCode, "B1", "B2"}
ReqIds        == {"r1", "r2"}
SessionIds    == 1..MaxSessions

\* pyotp.TOTP(secret).now(): the code an authenticator shows for the secret
TOTP(secret) == IF secret = "S1" THEN "111111" ELSE "222222"

(***************************************************************************)
(* services/two_factor_service.py                                          *)
(***************************************************************************)
RATE_LIMIT_ATTEMPTS == 5
RATE_LIMIT_MINUTES  == 15

\* Fernet encryption under the service's key; None is <<>>
encrypt_secret(secret) == <<"enc", secret>>
decrypt_secret(encrypted_secret) == encrypted_secret[2]
encrypt_backup_codes(codes) == <<"enc", codes>>
decrypt_backup_codes(encrypted_codes) ==
    IF encrypted_codes = <<>> THEN <<>> ELSE encrypted_codes[2]

SeqElems(q) == {q[i] : i \in 1..Len(q)}

verify_totp_code_any(secret, code) == TRUE

verify_totp_code(secret, code) == code = TOTP(secret)

is_rate_limited_late(rl, user_id, t) ==
    /\ user_id \in DOMAIN rl
    /\ ~(t - rl[user_id].last_attempt > RATE_LIMIT_MINUTES)
    /\ rl[user_id].attempts > RATE_LIMIT_ATTEMPTS

\* is_rate_limited: the value returned ...
is_rate_limited(rl, user_id, t) ==
    /\ user_id \in DOMAIN rl
    /\ ~(t - rl[user_id].last_attempt > RATE_LIMIT_MINUTES)
    /\ rl[user_id].attempts >= RATE_LIMIT_ATTEMPTS

\* ... and the storage it leaves behind (the entry is deleted once the
\* window has passed)
rate_limit_checked(rl, user_id, t) ==
    IF user_id \in DOMAIN rl /\ t - rl[user_id].last_attempt > RATE_LIMIT_MINUTES
    THEN [k \in DOMAIN rl \ {user_id} |-> rl[k]]
    ELSE rl

increment_rate_limit(rl, user_id, t) ==
    IF user_id \in DOMAIN rl
    THEN [rl EXCEPT ![user_id] = [attempts |-> @.attempts + 1, last_attempt |-> t]]
    ELSE (user_id :> [attempts |-> 1, last_attempt |-> t]) @@ rl

reset_rate_limit(rl, user_id) ==
    [k \in DOMAIN rl \ {user_id} |-> rl[k]]

backup_code_usable_again(backup_codes, used_codes, code) ==
    code \in SeqElems(backup_codes)

\* code in backup_codes and code not in used_codes
backup_code_usable(backup_codes, used_codes, code) ==
    code \in SeqElems(backup_codes) /\ code \notin SeqElems(used_codes)

\* verify_two_factor(user, code): outcome "ok" (True), "invalid" (False),
\* "not_enabled" or "rate_limited" (the two ValueErrors), with the used-codes
\* list of the user object and the rate-limit storage it leaves behind
verify_two_factor(user, code, rl, t) ==
    IF ~user.twoFactorEnabled \/ user.twoFactorSecret = <<>>
    THEN [outcome |-> "not_enabled", used |-> user.twoFactorBackupCodesUsed, rl |-> rl]
    ELSE IF is_rate_limited(rl, user.id, t)
    THEN [outcome |-> "rate_limited", used |-> user.twoFactorBackupCodesUsed,
          rl |-> rate_limit_checked(rl, user.id, t)]
    ELSE LET rl1 == rate_limit_checked(rl, user.id, t) IN
         IF verify_totp_code(decrypt_secret(user.twoFactorSecret), code)
         THEN [outcome |-> "ok", used |-> user.twoFactorBackupCodesUsed,
               rl |-> reset_rate_limit(rl1, user.id)]
         ELSE IF backup_code_usable(decrypt_backup_codes(user.backupCodes),
                                    user.twoFactorBackupCodesUsed, code)
         THEN [outcome |-> "ok", used |-> Append(user.twoFactorBackupCodesUsed, code),
               rl |-> reset_rate_limit(rl1, user.id)]
         ELSE [outcome |-> "invalid", used |-> user.twoFactorBackupCodesUsed,
               rl |-> increment_rate_limit(rl1, user.id, t)]

(***************************************************************************)
(* services/auth_service.py                                                *)
(***************************************************************************)
LOCK_THRESHOLD    == 5
LOCK_MINUTES      == 30
SESSION_MINUTES   == 5

\* hashlib.sha256(password).hexdigest(), the format of the records in USERS
sha256(password) == <<"sha256", password>>

\* bcrypt.checkpw raises ValueError on a hash that is not a bcrypt hash, and
\* the fallback compares with the SHA-256 digest
verify_password(password, stored_hash) ==
    IF stored_hash[1] = "bcrypt"
    THEN stored_hash[2] = password
    ELSE stored_hash = sha256(password)

InitialUser(id, password) ==
    [ id                       |-> id,
      password_hash            |-> sha256(password),
      twoFactorEnabled         |-> FALSE,
      twoFactorSecret          |-> <<>>,
      backupCodes              |-> <<>>,
      twoFactorBackupCodesUsed |-> <<>>,
      failedLoginAttempts      |-> 0,
      lockedUntil              |-> NoTime ]

is_account_locked(user, t) ==
    user.lockedUntil # NoTime /\ user.lockedUntil > t

increment_failed_login(user, t) ==
    LET n == user.failedLoginAttempts + 1
    IN  [user EXCEPT !.failedLoginAttempts = n,
                     !.lockedUntil = IF n >= LOCK_THRESHOLD THEN t + LOCK_MINUTES ELSE @]

reset_failed_login(user) ==
    [user EXCEPT !.failedLoginAttempts = 0, !.lockedUntil = NoTime]

\* verify_2fa_code(user, code): the ValueErrors of verify_two_factor are
\* caught and turned into False
verify_2fa_code(user, code, rl, t) ==
    LET v == verify_two_factor(user, code, rl, t)
    IN  [ result  |-> v.outcome = "ok",
          outcome |-> v.outcome,
          user    |-> [user EXCEPT !.twoFactorBackupCodesUsed = v.used],
          rl      |-> v.rl ]

\* a token pair of generate_tokens: the claims the two JWTs carry; every
\* modelled instant lies within the tokens' lifetime (1 hour, 7 days)
Token(user_id, username, is_2fa_verified) ==
    [user_id |-> user_id, username |-> username,
     is_2fa_verified |-> is_2fa_verified, pre_change |-> FALSE]

\* the token pairs a request may carry
TokenInputs ==
    {[Token(2, "user", v) EXCEPT !.pre_change = p] : v \in BOOLEAN, p \in BOOLEAN}

\* invalidate_all_sessions: the user's entries of REFRESH_TOKENS are removed
invalidate_all_sessions(tokens, user_id) ==
    {k \in tokens : k.user_id # user_id}

(***************************************************************************)
(* Observations on 2FA verification (history, not program state)           *)
(***************************************************************************)
LastN(q, n) == IF Len(q) <= n THEN q ELSE SubSeq(q, Len(q) - n + 1, Len(q))

BackupCodeNames == {"B1", "B2"}

TfaInit ==
    [ last_op      |-> "none",
      last_outcome |-> NoStr,
      last_code    |-> NoStr,
      reuse        |-> FALSE,   \* the code had been consumed as a backup code
      five_recent  |-> FALSE,   \* five failures in a row, the first at most 15 minutes ago
      window_full  |-> FALSE,   \* five failures counted in the window of the first one
      fail_times   |-> <<>>,    \* times of the failures since the last success (last five)
      consumed     |-> {},      \* backup codes accepted since the batch was stored
      win_count    |-> 0,       \* failures counted in the window opened by win_first
      win_first    |-> NoTime,
      invalid_done |-> 0,       \* interleaved verify calls that ended invalid since the last accepted one
      backup_ok    |-> [c \in BackupCodeNames |-> 0] ]  \* interleaved verify calls a backup code was accepted in

\* the observation after verify_2fa_code(user, code) at time t returned v
TfaVerified(o, user, code, v, t) ==
    LET expired == o.win_count > 0 /\ t - o.win_first > 15
        count0  == IF expired THEN 0 ELSE o.win_count
        first0  == IF expired THEN NoTime ELSE o.win_first
        backup  == /\ v.outcome = "ok"
                   /\ code # TOTP(decrypt_secret(user.twoFactorSecret))
    IN  [ last_op      |-> "verify",
          last_outcome |-> v.outcome,
          last_code    |-> code,
          reuse        |-> code \in o.consumed,
          five_recent  |-> /\ user.twoFactorEnabled
                           /\ Len(o.fail_times) = 5
                           /\ t - o.fail_times[1] <= 15,
          window_full  |-> count0 >= 5,
          fail_times   |-> CASE v.outcome = "invalid" ->
                                    LastN(Append(o.fail_times, t), 5)
                             [] v.outcome = "ok" -> <<>>
                             [] OTHER -> o.fail_times,
          consumed     |-> IF backup THEN o.consumed \cup {code} ELSE o.consumed,
          win_count    |-> CASE v.outcome = "invalid" -> count0 + 1
                             [] v.outcome = "ok" -> 0
                             [] OTHER -> count0,
          win_first    |-> CASE v.outcome = "invalid" -> IF count0 = 0 THEN t ELSE first0
                             [] v.outcome = "ok" -> NoTime
                             [] OTHER -> first0,
          invalid_done |-> o.invalid_done,
          backup_ok    |-> o.backup_ok ]

\* the observation after enable, disable or regenerate: the last verify
\* is forgotten, and a newly stored batch starts with no code consumed
TfaChanged(o, new_batch) ==
    [o EXCEPT !.last_op = "none",
              !.last_outcome = NoStr,
              !.last_code = NoStr,
              !.reuse = FALSE,
              !.five_recent = FALSE,
              !.window_full = FALSE,
              !.consumed = IF new_batch THEN {} ELSE @]

(***************************************************************************)
(* Observations on login (history, not program state)                      *)
(***************************************************************************)
HistInit ==
    [ last_op      |-> "none",
      last_outcome |-> NoStr,
      enabled      |-> FALSE,   \* the user had 2FA enabled when the call was served
      pw_ok        |-> FALSE,   \* the password of the call was the user's password
      no_code      |-> FALSE,   \* the call carried no totpCode
      verified     |-> FALSE,   \* verify_two_factor returned True in the call
      code_valid   |-> FALSE,   \* the code was the TOTP code or an unused backup code
      limited      |-> FALSE,   \* verify_two_factor raised the rate-limit error in the call
      was_locked   |-> FALSE,   \* the account was locked when the call was served
      in_lock      |-> FALSE,   \* the call fell in the 30 minutes after a 5th failure
      pre_change   |-> FALSE,   \* the token was issued before 2FA was enabled/disabled
      gate         |-> FALSE,   \* the token passes require_2fa_verified
      tokens       |-> FALSE,   \* the call issued tokens
      late         |-> FALSE,   \* the session had already yielded tokens
      session      |-> 0,       \* the pending session the call created
      fail_streak  |-> 0,       \* failed logins in a row
      lock_from    |-> NoTime,  \* time of the last 5th failure in a row
      sessions     |-> 0,       \* pending sessions created so far
      sess_tokens  |-> [s \in SessionIds |-> 0] ]  \* token pairs issued per session

Obs(h, op, outcome) ==
    [h EXCEPT !.last_op = op, !.last_outcome = outcome,
              !.enabled = FALSE, !.pw_ok = FALSE, !.no_code = FALSE,
              !.verified = FALSE, !.code_valid = FALSE, !.limited = FALSE,
              !.was_locked = FALSE,
              !.in_lock = FALSE, !.pre_change = FALSE, !.gate = FALSE,
              !.tokens = FALSE, !.late = FALSE, !.session = 0]

\* what the client receives for an outcome of login_user or
\* complete_2fa_login: the text of the ValueError and the status of the route
login_error(outcome) ==
    CASE outcome = "InvalidCredentials" -> "Invalid username or password"
      [] outcome = "InvalidCode" -> "Invalid two-factor authentication code"
      [] outcome = "AccountLocked" ->
            "Account is temporarily locked due to too many failed login attempts"
      [] outcome = "SessionNotFound" -> "Invalid or expired session"
      [] outcome = "SessionExpired" -> "Session expired. Please log in again."
      [] OTHER -> NoStr

login_status(outcome) == IF login_error(outcome) = NoStr THEN 200 ELSE 401

\* a failed login: the fifth in a row opens the 30 minutes of the lockout
Failed(h, t) ==
    IF h.fail_streak + 1 >= 5
    THEN [h EXCEPT !.fail_streak = 0, !.lock_from = t]
    ELSE [h EXCEPT !.fail_streak = @ + 1]

Succeeded(h) == [h EXCEPT !.fail_streak = 0]

InLockWindow(h, t) == h.lock_from # NoTime /\ t < h.lock_from + 30

\* the code is the user's current TOTP code or one of the unused backup codes
CodeValid(user, code) ==
    /\ user.twoFactorEnabled
    /\ user.twoFactorSecret # <<>>
    /\ \/ code = TOTP(decrypt_secret(user.twoFactorSecret))
       \/ /\ code \in SeqElems(decrypt_backup_codes(user.backupCodes))
          /\ code \notin SeqElems(user.twoFactorBackupCodesUsed)

(***************************************************************************)
(* AuthService operations on the 2FA fields of a user                      *)
(***************************************************************************)
Verify2FACode(u, code) ==
    /\ LET v == verify_2fa_code(USERS[u], code, rate_limit_storage, now)
       IN  /\ USERS' = [USERS EXCEPT ![u] = v.user]
           /\ rate_limit_storage' = v.rl
           /\ tfa' = TfaVerified(tfa, USERS[u], code, v, now)
    /\ UNCHANGED <<now, PENDING_2FA, REFRESH_TOKENS, issued, reqs, hist>>
    /\ UNCHANGED jobVars

\* the observation after enable_2fa or disable_2fa raised its ValueError
TfaRejected(o, op) ==
    [TfaChanged(o, FALSE) EXCEPT !.last_op = op, !.last_outcome = "rejected"]

\* enable_2fa, lines 389-393: the user record after a verified enable
enable_2fa(user, secret, backup_codes) ==
    [user EXCEPT !.twoFactorEnabled = TRUE,
                 !.twoFactorSecret = encrypt_secret(secret),
                 !.backupCodes = encrypt_backup_codes(backup_codes),
                 !.twoFactorBackupCodesUsed = <<>>]

disable_2fa_keeps_codes(user) ==
    [user EXCEPT !.twoFactorEnabled = FALSE,
                 !.twoFactorSecret = <<>>,
                 !.twoFactorBackupCodesUsed = <<>>]

\* disable_2fa, lines 408-412: the user record after a confirmed disable
disable_2fa(user) ==
    [user EXCEPT !.twoFactorEnabled = FALSE,
                 !.twoFactorSecret = <<>>,
                 !.backupCodes = <<>>,
                 !.twoFactorBackupCodesUsed = <<>>]

\* enable_2fa behind the route's check that 2FA is not enabled yet
Enable2FA(u, secret, verification_code, backup_codes) ==
    /\ ~USERS[u].twoFactorEnabled
    /\ IF verify_totp_code(secret, verification_code)
       THEN /\ USERS' = [USERS EXCEPT ![u] = enable_2fa(@, secret, backup_codes)]
            /\ REFRESH_TOKENS' = invalidate_all_sessions(REFRESH_TOKENS, USERS[u].id)
            /\ issued' = {[k EXCEPT !.pre_change = @ \/ k.user_id = USERS[u].id] : k \in issued}
            /\ tfa' = TfaChanged(tfa, TRUE)
       ELSE /\ tfa' = TfaRejected(tfa, "enable")
            /\ UNCHANGED <<USERS, REFRESH_TOKENS, issued>>
    /\ UNCHANGED <<now, PENDING_2FA, rate_limit_storage, reqs, hist>>
    /\ UNCHANGED jobVars

\* disable_2fa behind the route's check that 2FA is enabled
Disable2FA(u, password) ==
    /\ USERS[u].twoFactorEnabled
    /\ IF verify_password(password, USERS[u].password_hash)
       THEN /\ USERS' = [USERS EXCEPT ![u] = disable_2fa(@)]
            /\ REFRESH_TOKENS' = invalidate_all_sessions(REFRESH_TOKENS, USERS[u].id)
            /\ issued' = {[k EXCEPT !.pre_change = @ \/ k.user_id = USERS[u].id] : k \in issued}
            /\ tfa' = TfaChanged(tfa, FALSE)
       ELSE /\ tfa' = TfaRejected(tfa, "disable")
            /\ UNCHANGED <<USERS, REFRESH_TOKENS, issued>>
    /\ UNCHANGED <<now, PENDING_2FA, rate_limit_storage, reqs, hist>>
    /\ UNCHANGED jobVars

\* generate_backup_codes(count), lines 74-81: draws[i] is the i-th code that
\* secrets.token_urlsafe gives; every draw is appended as it comes
generate_backup_codes(count, draws) == [i \in 1..count |-> draws[i]]

\* the sequences of codes the generator can draw for one batch
BatchDraws == [1..BatchCount -> BackupCodeNames]

regenerate_keeps_used(user, new_codes) ==
    [user EXCEPT !.backupCodes = encrypt_backup_codes(new_codes)]

\* regenerate_backup_codes, lines 437-439: the user record afterwards
regenerate_backup_codes(user, new_codes) ==
    [user EXCEPT !.backupCodes = encrypt_backup_codes(new_codes),
                 !.twoFactorBackupCodesUsed = <<>>]

\* regenerate_backup_codes; new_codes is what generate_backup_codes drew
RegenerateBackupCodes(u, new_codes) ==
    /\ IF USERS[u].twoFactorEnabled
       THEN /\ USERS' = [USERS EXCEPT ![u] = regenerate_backup_codes(@, new_codes)]
            /\ tfa' = [TfaChanged(tfa, TRUE) EXCEPT !.last_op = "regenerate",
                                                    !.last_outcome = "ok"]
       ELSE /\ tfa' = TfaRejected(tfa, "regenerate")
            /\ UNCHANGED USERS
    /\ UNCHANGED <<now, PENDING_2FA, REFRESH_TOKENS, rate_limit_storage, issued, reqs, hist>>
    /\ UNCHANGED jobVars

AdvanceAuthTime(d) ==
    /\ now + d <= MaxAuthTime
    /\ now' = now + d
    /\ UNCHANGED jobVars
    /\ UNCHANGED authVars

(***************************************************************************)
(* AuthService: login_user, complete_2fa_login; middleware: authenticate   *)
(***************************************************************************)
LoginCodes == {NoStr, "111111"}
CompleteCodes == {"111111", BadCode}
AuthBatches == {<<"B1", "B2">>}

\* login_user, line 178: a second factor is demanded of a user with 2FA enabled
requires_two_factor_never(user) == FALSE

requires_two_factor(user) == user.twoFactorEnabled

\* login_user(data); totp_code is NoStr when the request carries none
LoginUser(username, password, totp_code) ==
    /\ IF username \notin DOMAIN USERS
       THEN /\ hist' = Obs(hist, "login", "InvalidCredentials")
            /\ UNCHANGED <<USERS, PENDING_2FA, REFRESH_TOKENS, rate_limit_storage, issued>>
       ELSE LET user == USERS[username]
                o    == [Obs(hist, "login", NoStr) EXCEPT
                            !.enabled = user.twoFactorEnabled,
                            !.pw_ok = verify_password(password, user.password_hash),
                            !.no_code = (totp_code = NoStr),
                            !.was_locked = is_account_locked(user, now),
                            !.in_lock = InLockWindow(hist, now)]
            IN
            /\ IF is_account_locked(user, now)
               THEN /\ hist' = [o EXCEPT !.last_outcome = "AccountLocked"]
                    /\ UNCHANGED <<USERS, PENDING_2FA, REFRESH_TOKENS, rate_limit_storage, issued>>
               ELSE IF ~verify_password(password, user.password_hash)
               THEN /\ user.failedLoginAttempts < MaxFailed
                    /\ USERS' = [USERS EXCEPT ![username] = increment_failed_login(user, now)]
                    /\ hist' = Failed([o EXCEPT !.last_outcome = "InvalidCredentials"], now)
                    /\ UNCHANGED <<PENDING_2FA, REFRESH_TOKENS, rate_limit_storage, issued>>
               ELSE IF requires_two_factor(user) /\ totp_code = NoStr
               THEN /\ hist.sessions < MaxSessions
                    /\ LET session_id == hist.sessions + 1 IN
                       /\ PENDING_2FA' = (session_id :>
                              [user_id |-> user.id, username |-> username,
                               expires_at |-> now + SESSION_MINUTES]) @@ PENDING_2FA
                       /\ hist' = [o EXCEPT !.last_outcome = "TwoFactorRequired",
                                            !.session = session_id,
                                            !.sessions = session_id]
                    /\ UNCHANGED <<USERS, REFRESH_TOKENS, rate_limit_storage, issued>>
               ELSE IF requires_two_factor(user)
               THEN LET v == verify_2fa_code(user, totp_code, rate_limit_storage, now)
                        o2 == [o EXCEPT !.verified = v.result,
                                        !.code_valid = CodeValid(user, totp_code),
                                        !.limited = (v.outcome = "rate_limited")]
                    IN  /\ rate_limit_storage' = v.rl
                        /\ UNCHANGED PENDING_2FA
                        /\ IF ~v.result
                           THEN /\ user.failedLoginAttempts < MaxFailed
                                /\ USERS' = [USERS EXCEPT ![username] =
                                                increment_failed_login(v.user, now)]
                                /\ hist' = Failed([o2 EXCEPT !.last_outcome = "InvalidCode"], now)
                                /\ UNCHANGED <<REFRESH_TOKENS, issued>>
                           ELSE /\ USERS' = [USERS EXCEPT ![username] = reset_failed_login(v.user)]
                                /\ REFRESH_TOKENS' = REFRESH_TOKENS \cup {Token(user.id, username, TRUE)}
                                /\ issued' = issued \cup {Token(user.id, username, TRUE)}
                                /\ hist' = Succeeded([o2 EXCEPT !.last_outcome = "Authenticated",
                                                                !.tokens = TRUE])
               ELSE LET is_2fa_verified == ~user.twoFactorEnabled \/ totp_code # NoStr
                    IN  /\ USERS' = [USERS EXCEPT ![username] = reset_failed_login(user)]
                        /\ REFRESH_TOKENS' = REFRESH_TOKENS \cup
                                                {Token(user.id, username, is_2fa_verified)}
                        /\ issued' = issued \cup {Token(user.id, username, is_2fa_verified)}
                        /\ hist' = Succeeded([o EXCEPT !.last_outcome = "Authenticated",
                                                       !.tokens = TRUE])
                        /\ UNCHANGED <<PENDING_2FA, rate_limit_storage>>
    /\ UNCHANGED <<now, reqs, tfa>>
    /\ UNCHANGED jobVars

\* a request thread serving complete_2fa_login(session_id, totp_code)
IdleRequest ==
    [pc |-> "idle", session_id |-> 0, totp_code |-> NoStr, username |-> NoStr,
     enabled |-> FALSE, code_valid |-> FALSE, late |-> FALSE,
     attempts |-> 0, used_seen |-> <<>>]

EndRequest(r, outcome) ==
    /\ reqs' = [reqs EXCEPT ![r] = IdleRequest]
    /\ hist' = [Obs(hist, "complete", outcome) EXCEPT
                    !.session = reqs[r].session_id,
                    !.enabled = reqs[r].enabled,
                    !.code_valid = reqs[r].code_valid,
                    !.late = reqs[r].late]

\* `del PENDING_2FA[session_id]` raises KeyError when the entry is gone
del_tolerant(pending, session_id) == FALSE

del_raises(pending, session_id) == session_id \notin DOMAIN pending

\* line 221: `if session_id not in PENDING_2FA`
CompleteBegin(r, session_id, totp_code) ==
    /\ reqs[r].pc = "idle"
    /\ IF session_id \notin DOMAIN PENDING_2FA
       THEN /\ hist' = [Obs(hist, "complete", "SessionNotFound") EXCEPT
                            !.session = session_id,
                            !.late = hist.sess_tokens[session_id] > 0]
            /\ UNCHANGED reqs
       ELSE /\ reqs' = [reqs EXCEPT ![r] =
                    [IdleRequest EXCEPT !.pc = "read", !.session_id = session_id,
                                        !.totp_code = totp_code,
                                        !.late = hist.sess_tokens[session_id] > 0]]
            /\ UNCHANGED hist
    /\ UNCHANGED <<now, USERS, PENDING_2FA, REFRESH_TOKENS, rate_limit_storage, issued, tfa>>
    /\ UNCHANGED jobVars

session_never_expires(session, t) == FALSE

\* line 225: `datetime.utcnow() > session['expires_at']`
session_expired(session, t) == t > session.expires_at

\* lines 224-233: the session is read; an expired one is deleted
CompleteRead(r) ==
    /\ reqs[r].pc = "read"
    /\ LET session_id == reqs[r].session_id IN
       IF session_id \notin DOMAIN PENDING_2FA
       THEN /\ EndRequest(r, "KeyError")
            /\ UNCHANGED PENDING_2FA
       ELSE IF session_expired(PENDING_2FA[session_id], now)
       THEN /\ PENDING_2FA' = [k \in DOMAIN PENDING_2FA \ {session_id} |-> PENDING_2FA[k]]
            /\ EndRequest(r, "SessionExpired")
       ELSE /\ reqs' = [reqs EXCEPT ![r].pc = "verify",
                                    ![r].username = PENDING_2FA[session_id].username]
            /\ UNCHANGED <<hist, PENDING_2FA>>
    /\ UNCHANGED <<now, USERS, REFRESH_TOKENS, rate_limit_storage, issued, tfa>>
    /\ UNCHANGED jobVars

\* lines 236-238: the code is verified
CompleteVerify(r) ==
    /\ reqs[r].pc = "verify"
    /\ LET user == USERS[reqs[r].username]
           v    == verify_2fa_code(user, reqs[r].totp_code, rate_limit_storage, now)
       IN  /\ rate_limit_storage' = v.rl
           /\ IF ~v.result
              THEN /\ user.failedLoginAttempts < MaxFailed
                   /\ USERS' = [USERS EXCEPT ![reqs[r].username] =
                                    increment_failed_login(v.user, now)]
                   /\ reqs' = [reqs EXCEPT ![r] = IdleRequest]
                   /\ hist' = [Obs(hist, "complete", "InvalidCode") EXCEPT
                                  !.session = reqs[r].session_id,
                                  !.enabled = user.twoFactorEnabled,
                                  !.code_valid = CodeValid(user, reqs[r].totp_code),
                                  !.limited = (v.outcome = "rate_limited"),
                                  !.late = reqs[r].late]
              ELSE /\ USERS' = [USERS EXCEPT ![reqs[r].username] = v.user]
                   /\ reqs' = [reqs EXCEPT ![r].pc = "del",
                                  ![r].enabled = user.twoFactorEnabled,
                                  ![r].code_valid = CodeValid(user, reqs[r].totp_code)]
                   /\ UNCHANGED hist
    /\ UNCHANGED <<now, PENDING_2FA, REFRESH_TOKENS, issued, tfa>>
    /\ UNCHANGED jobVars

\* line 241: `del PENDING_2FA[session_id]`
CompleteDel(r) ==
    /\ reqs[r].pc = "del"
    /\ LET session_id == reqs[r].session_id IN
       IF del_raises(PENDING_2FA, session_id)
       THEN /\ EndRequest(r, "KeyError")
            /\ UNCHANGED PENDING_2FA
       ELSE /\ PENDING_2FA' = [k \in DOMAIN PENDING_2FA \ {session_id} |-> PENDING_2FA[k]]
            /\ reqs' = [reqs EXCEPT ![r].pc = "issue"]
            /\ UNCHANGED hist
    /\ UNCHANGED <<now, USERS, REFRESH_TOKENS, rate_limit_storage, issued, tfa>>
    /\ UNCHANGED jobVars

\* lines 244-259: the failed-login state is reset and the tokens are issued
CompleteIssue(r) ==
    /\ reqs[r].pc = "issue"
    /\ LET username == reqs[r].username
           user     == USERS[username]
       IN  /\ USERS' = [USERS EXCEPT ![username] = reset_failed_login(user)]
           /\ REFRESH_TOKENS' = REFRESH_TOKENS \cup {Token(user.id, username, TRUE)}
           /\ issued' = issued \cup {Token(user.id, username, TRUE)}
           /\ reqs' = [reqs EXCEPT ![r] = IdleRequest]
           /\ hist' = Succeeded([Obs(hist, "complete", "Authenticated") EXCEPT
                          !.session = reqs[r].session_id,
                          !.enabled = reqs[r].enabled,
                          !.verified = TRUE,
                          !.code_valid = reqs[r].code_valid,
                          !.was_locked = is_account_locked(user, now),
                          !.in_lock = InLockWindow(hist, now),
                          !.late = reqs[r].late,
                          !.tokens = TRUE,
                          !.sess_tokens[reqs[r].session_id] = @ + 1])
    /\ UNCHANGED <<now, PENDING_2FA, rate_limit_storage, tfa>>
    /\ UNCHANGED jobVars

(***************************************************************************)
(* verify_2fa_code / verify_two_factor served by a request thread, one     *)
(* read or write of the shared dictionaries per step                        *)
(***************************************************************************)
\* auth_service.py 343-350: the MockUser takes the user's list of used codes
VerifyBegin(r, u, code) ==
    /\ reqs[r].pc = "idle"
    /\ reqs' = [reqs EXCEPT ![r] =
            [IdleRequest EXCEPT !.pc = "v_check", !.username = u, !.totp_code = code,
                                !.used_seen = USERS[u].twoFactorBackupCodesUsed]]
    /\ UNCHANGED <<now, USERS, PENDING_2FA, REFRESH_TOKENS, rate_limit_storage, issued, hist, tfa>>
    /\ UNCHANGED jobVars

\* two_factor_service.py 163-168: enabled test and is_rate_limited
VerifyCheck(r) ==
    /\ reqs[r].pc = "v_check"
    /\ LET user == USERS[reqs[r].username] IN
       IF ~user.twoFactorEnabled \/ user.twoFactorSecret = <<>>
       THEN /\ reqs' = [reqs EXCEPT ![r] = IdleRequest]
            /\ UNCHANGED rate_limit_storage
       ELSE /\ rate_limit_storage' = rate_limit_checked(rate_limit_storage, user.id, now)
            /\ reqs' = [reqs EXCEPT ![r] =
                    IF is_rate_limited(rate_limit_storage, user.id, now)
                    THEN IdleRequest
                    ELSE [@ EXCEPT !.pc = "v_match"]]
    /\ UNCHANGED <<now, USERS, PENDING_2FA, REFRESH_TOKENS, issued, hist, tfa>>
    /\ UNCHANGED jobVars

\* lines 171-180 and 191, 239-241: the code is compared with the TOTP code
\* and with the backup codes not in the used list; for a code that matches
\* nothing increment_rate_limit reads the counter
VerifyMatch(r) ==
    /\ reqs[r].pc = "v_match"
    /\ LET user == USERS[reqs[r].username]
           code == reqs[r].totp_code
       IN
       IF verify_totp_code(decrypt_secret(user.twoFactorSecret), code)
       THEN /\ rate_limit_storage' = reset_rate_limit(rate_limit_storage, user.id)
            /\ reqs' = [reqs EXCEPT ![r] = IdleRequest]
            /\ tfa' = [tfa EXCEPT !.invalid_done = 0]
       ELSE IF backup_code_usable(decrypt_backup_codes(user.backupCodes),
                                  user.twoFactorBackupCodesUsed, code)
       THEN /\ reqs' = [reqs EXCEPT ![r].pc = "v_append"]
            /\ UNCHANGED <<rate_limit_storage, tfa>>
       ELSE /\ reqs' = [reqs EXCEPT ![r].pc = "v_incr",
                                    ![r].attempts =
                                        IF user.id \in DOMAIN rate_limit_storage
                                        THEN rate_limit_storage[user.id].attempts
                                        ELSE 0]
            /\ UNCHANGED <<rate_limit_storage, tfa>>
    /\ UNCHANGED <<now, USERS, PENDING_2FA, REFRESH_TOKENS, issued, hist>>
    /\ UNCHANGED jobVars

\* lines 182-188 and auth_service.py 355: the code is appended to the used
\* list (a new list when the one taken was empty), the counter is reset and
\* the call returns True
VerifyAppend(r) ==
    /\ reqs[r].pc = "v_append"
    /\ LET u    == reqs[r].username
           code == reqs[r].totp_code
       IN  /\ USERS' = [USERS EXCEPT ![u].twoFactorBackupCodesUsed =
                            IF reqs[r].used_seen = <<>> THEN <<code>> ELSE Append(@, code)]
           /\ rate_limit_storage' = reset_rate_limit(rate_limit_storage, USERS[u].id)
           /\ tfa' = [tfa EXCEPT !.invalid_done = 0,
                                 !.backup_ok[code] = @ + 1]
    /\ reqs' = [reqs EXCEPT ![r] = IdleRequest]
    /\ UNCHANGED <<now, PENDING_2FA, REFRESH_TOKENS, issued, hist>>
    /\ UNCHANGED jobVars

\* lines 241-244: increment_rate_limit stores the count it read plus one, and
\* the call returns False
VerifyIncr(r) ==
    /\ reqs[r].pc = "v_incr"
    /\ LET user_id == USERS[reqs[r].username].id IN
       rate_limit_storage' =
           (user_id :> [attempts |-> reqs[r].attempts + 1, last_attempt |-> now])
               @@ rate_limit_storage
    /\ tfa' = [tfa EXCEPT !.invalid_done = @ + 1]
    /\ reqs' = [reqs EXCEPT ![r] = IdleRequest]
    /\ UNCHANGED <<now, USERS, PENDING_2FA, REFRESH_TOKENS, issued, hist>>
    /\ UNCHANGED jobVars

\* middleware authenticate and require_2fa_verified on a request that
\* carries the access token of a pair issued earlier
Authenticate(token) ==
    /\ token \in issued
    /\ LET user == USERS[token.username] IN
       hist' = [Obs(hist, "authenticate",
                    IF token.username \notin DOMAIN USERS THEN "UserNotFound"
                    ELSE IF is_account_locked(user, now) THEN "AccountLocked"
                    ELSE "accepted") EXCEPT
                   !.enabled = user.twoFactorEnabled,
                   !.pre_change = token.pre_change,
                   !.gate = (~user.twoFactorEnabled \/ token.is_2fa_verified)]
    /\ UNCHANGED <<now, USERS, PENDING_2FA, REFRESH_TOKENS, rate_limit_storage, issued, reqs, tfa>>
    /\ UNCHANGED jobVars

\* refresh_token: no refresh token is ever accepted
RefreshToken ==
    /\ hist' = Obs(hist, "refresh", "RefreshTokenNotProvided")
    /\ UNCHANGED <<now, USERS, PENDING_2FA, REFRESH_TOKENS, rate_limit_storage, issued, reqs, tfa>>
    /\ UNCHANGED jobVars

(***************************************************************************)
(* Initial state and next-state relations                                  *)
(***************************************************************************)
InitJobs ==
    /\ jobs = [j \in {} |-> NewExportJob(0, 0)]
    /\ redis = [j \in {} |-> PoisonPill]
    /\ job_queue = <<>>
    /\ running = TRUE
    /\ stopping = "idle"
    /\ workers = [w \in WorkerIds |-> [pc |-> "loop", job_data |-> PoisonPill, last |-> "none"]]
    /\ threads = [j \in {} |-> [pc |-> "start", job_data |-> PoisonPill]]
    /\ created = {}
    /\ jhist = JobHistInit

InitAuth ==
    /\ USERS = [u \in Usernames |-> InitialUser(2, "user123")]
    /\ PENDING_2FA = <<>>
    /\ REFRESH_TOKENS = {}
    /\ rate_limit_storage = <<>>
    /\ issued = {}
    /\ reqs = [r \in ReqIds |-> IdleRequest]
    /\ hist = HistInit
    /\ tfa = TfaInit

Init == now = 0 /\ InitJobs /\ InitAuth

\* the job store: repository and enhanced service, with the clock
NextStore ==
    \/ \E j \in JobIds, u \in JobOwners : CreateExportJobDb(j, u)
    \/ \E j \in JobIds, p \in ProgressInputs : UpdateJobProgressDb(j, p)
    \/ \E j \in JobIds, f \in FilePaths, z \in FileSizes, n \in Filenames :
            MarkJobCompletedDb(j, f, z, n)
    \/ \E j \in JobIds, e \in Errors : MarkJobFailedDb(j, e)
    \/ \E j \in JobIds, u \in JobUsers : CancelExportJob(j, u)
    \/ \E j \in JobIds, u \in JobUsers : RetryExportJob(j, u)
    \/ \E j \in JobIds : MarkJobStarted(j)
    \/ \E j \in JobIds, in \in StatusInputs : UpdateJobStatus(j, in[1], in[2], in[3])
    \/ \E j \in JobIds, e \in Errors, a \in BOOLEAN : MarkJobFailed(j, e, a)
    \/ \E j \in JobIds : RetryJob(j)
    \/ \E j \in JobIds, u \in {0} \cup JobUsers : CancelJob(j, u)
    \/ \E d \in JobTimeSteps : AdvanceJobTime(d)

\* the worker pool and the background threads, with the enhanced service
\* operations that write the same Redis entries
NextQueue ==
    \/ \E j \in JobIds, u \in JobOwners : CreateExportJobDb(j, u)
    \/ \E j \in JobIds, f \in FilePaths, z \in FileSizes, n \in Filenames :
            MarkJobCompletedDb(j, f, z, n)
    \/ \E j \in JobIds, e \in Errors : MarkJobFailedDb(j, e)
    \/ \E j \in JobIds, u \in JobUsers : CancelExportJob(j, u)
    \/ \E j \in JobIds, u \in JobOwners : CreateExportJob(j, u)
    \/ \E j \in JobIds : ProcessExportStart(j)
    \/ \E j \in JobIds, f \in FilePaths, n \in Filenames : ProcessExportCompleted(j, f, n)
    \/ \E j \in JobIds, e \in Errors : ProcessExportFailed(j, e)
    \/ \E j \in JobIds : QueueExportJob(j)
    \/ StopWorkers
    \/ StopWorkersReturn
    \/ \E w \in WorkerIds : WorkerLoop(w)
    \/ \E w \in WorkerIds : WorkerGet(w)
    \/ \E w \in WorkerIds : WorkerStart(w)
    \/ \E w \in WorkerIds : WorkerProgress30(w)
    \/ \E w \in WorkerIds : WorkerRendered(w)
    \/ \E w \in WorkerIds, f \in FilePaths, n \in Filenames, z \in FileSizes :
            WorkerCompleted(w, f, n, z)
    \/ \E w \in WorkerIds, from \in WorkerStages, e \in Errors : WorkerFailed(w, from, e)
    \/ \E w \in WorkerIds, from \in WorkerStages : WorkerFailedUnrecorded(w, from)

\* verification, enabling and disabling of 2FA, with the clock
NextTwoFactor ==
    \/ \E u \in Usernames, c \in VerifyCodes : Verify2FACode(u, c)
    \/ \E u \in Usernames, sec \in Secrets, c \in {TOTP(x) : x \in Secrets} \cup {BadCode},
          b \in BackupBatches : Enable2FA(u, sec, c, b)
    \/ \E u \in Usernames, pw \in Passwords : Disable2FA(u, pw)
    \/ \E u \in Usernames, b \in BackupBatches : RegenerateBackupCodes(u, b)
    \/ \E d \in TwoFactorTimeSteps : AdvanceAuthTime(d)

\* login, completion of a 2FA login, enabling and disabling of 2FA, and
\* authenticated requests, with the clock
NextAuth ==
    \/ \E u \in Usernames \cup UnknownNames, pw \in Passwords, c \in LoginCodes :
            LoginUser(u, pw, c)
    \/ \E sid \in SessionIds : CompleteBegin("r1", sid, "111111")
    \/ CompleteRead("r1")
    \/ CompleteVerify("r1")
    \/ CompleteDel("r1")
    \/ CompleteIssue("r1")
    \/ \E u \in Usernames, sec \in Secrets, b \in AuthBatches :
            Enable2FA(u, sec, TOTP(sec), b)
    \/ \E u \in Usernames, pw \in Passwords : Disable2FA(u, pw)
    \/ \E k \in TokenInputs : Authenticate(k)
    \/ RefreshToken
    \/ \E d \in AuthTimeSteps : AdvanceAuthTime(d)

\* two request threads completing 2FA logins at the same time
NextSession ==
    \/ \E u \in Usernames : LoginUser(u, "user123", NoStr)
    \/ \E r \in ReqIds, sid \in SessionIds, c \in CompleteCodes : CompleteBegin(r, sid, c)
    \/ \E r \in ReqIds : CompleteRead(r)
    \/ \E r \in ReqIds : CompleteVerify(r)
    \/ \E r \in ReqIds : CompleteDel(r)
    \/ \E r \in ReqIds : CompleteIssue(r)
    \/ \E u \in Usernames, sec \in Secrets, b \in AuthBatches :
            Enable2FA(u, sec, TOTP(sec), b)
    \/ \E d \in AuthTimeSteps : AdvanceAuthTime(d)

\* logins with and without a code, completions, and the /verify route that
\* counts failed verifications without touching the login counter, all
\* within one minute
NextLogin ==
    \/ \E u \in Usernames \cup UnknownNames, pw \in Passwords, c \in LoginCodes \cup {BadCode} :
            LoginUser(u, pw, c)
    \/ \E u \in Usernames : tfa.win_count < MaxFailed /\ Verify2FACode(u, BadCode)
    \/ \E sid \in SessionIds, c \in CompleteCodes : CompleteBegin("r1", sid, c)
    \/ CompleteRead("r1")
    \/ CompleteVerify("r1")
    \/ CompleteDel("r1")
    \/ CompleteIssue("r1")
    \/ \E u \in Usernames, sec \in Secrets, b \in AuthBatches :
            Enable2FA(u, sec, TOTP(sec), b)

SpecLogin == Init /\ [][NextLogin]_vars
\* the calls that touch a user's 2FA fields, with logins that store
\* sessions, all within one minute
NextAccount ==
    \/ \E u \in Usernames, pw \in Passwords, c \in LoginCodes : LoginUser(u, pw, c)
    \/ \E u \in Usernames, c \in {"B1", BadCode} :
            tfa.win_count < MaxFailed /\ Verify2FACode(u, c)
    \/ \E u \in Usernames, sec \in Secrets, c \in {TOTP(x) : x \in Secrets} \cup {BadCode},
          b \in AuthBatches : Enable2FA(u, sec, c, b)
    \/ \E u \in Usernames, pw \in Passwords : Disable2FA(u, pw)
    \/ \E u \in Usernames, b \in AuthBatches : RegenerateBackupCodes(u, b)

SpecAccount == Init /\ [][NextAccount]_vars
\* two request threads verifying codes of one user at the same time
NextVerifyRace ==
    \/ \E u \in Usernames, sec \in Secrets, b \in AuthBatches :
            Enable2FA(u, sec, TOTP(sec), b)
    \/ \E r \in ReqIds, u \in Usernames, c \in {"B1", BadCode} :
            tfa.invalid_done < MaxFailed /\ VerifyBegin(r, u, c)
    \/ \E r \in ReqIds : VerifyCheck(r)
    \/ \E r \in ReqIds : VerifyMatch(r)
    \/ \E r \in ReqIds : VerifyAppend(r)
    \/ \E r \in ReqIds : VerifyIncr(r)

SpecVerifyRace == Init /\ [][NextVerifyRace]_vars
\* batches drawn by generate_backup_codes, stored by regenerate and used
NextBackupCodes ==
    \/ \E u \in Usernames, sec \in Secrets, b \in AuthBatches :
            Enable2FA(u, sec, TOTP(sec), b)
    \/ \E u \in Usernames, d \in BatchDraws :
            RegenerateBackupCodes(u, generate_backup_codes(BatchCount, d))
    \/ \E u \in Usernames, c \in VerifyCodes :
            tfa.win_count < MaxFailed /\ Verify2FACode(u, c)
    \/ \E d \in AuthTimeSteps : AdvanceAuthTime(d)

SpecBackupCodes == Init /\ [][NextBackupCodes]_vars
SpecSession == Init /\ [][NextSession]_vars
SpecAuth == Init /\ [][NextAuth]_vars
\* mark_failed and retry on the rows of the table, with the clock
NextRetry ==
    \/ \E j \in JobIds, u \in JobOwners : CreateExportJobDb(j, u)
    \/ \E j \in JobIds : MarkJobStarted(j)
    \/ \E j \in JobIds, e \in Errors, a \in BOOLEAN : MarkJobFailed(j, e, a)
    \/ \E j \in JobIds : RetryJob(j)
    \/ \E d \in JobTimeSteps : AdvanceJobTime(d)

\* two jobs created at different times, completed with a file, and the
\* cleanup of the expired ones
NextCleanup ==
    \/ \E j \in CleanupJobIds, u \in JobOwners : CreateExportJobDb(j, u)
    \/ \E j \in CleanupJobIds, f \in FilePaths, z \in FileSizes, n \in Filenames :
            MarkJobCompletedDb(j, f, z, n)
    \/ \E fails \in SUBSET CleanupJobIds : CleanupExpiredJobs(fails)
    \/ \E d \in JobTimeSteps : AdvanceJobTime(d)

SpecCleanup == Init /\ [][NextCleanup]_vars
\* the job-state operations of the enhanced export service alone
NextService ==
    \/ \E j \in JobIds, u \in JobOwners : CreateExportJobDb(j, u)
    \/ \E j \in JobIds, p \in ProgressInputs : UpdateJobProgressDb(j, p)
    \/ \E j \in JobIds, f \in FilePaths, z \in FileSizes, n \in Filenames :
            MarkJobCompletedDb(j, f, z, n)
    \/ \E j \in JobIds, e \in Errors : MarkJobFailedDb(j, e)
    \/ \E j \in JobIds, u \in JobUsers : CancelExportJob(j, u)
    \/ \E j \in JobIds, u \in JobUsers : RetryExportJob(j, u)
    \/ \E d \in JobTimeSteps : AdvanceJobTime(d)

SpecService == Init /\ [][NextService]_vars
SpecRetry == Init /\ [][NextRetry]_vars
\* the worker pool alone: jobs are created, queued and processed, and the
\* pool is stopped
NextWorkers ==
    \/ \E j \in JobIds, u \in JobOwners : CreateExportJobDb(j, u)
    \/ \E j \in JobIds : QueueExportJob(j)
    \/ StopWorkers
    \/ StopWorkersReturn
    \/ \E w \in WorkerIds : WorkerLoop(w)
    \/ \E w \in WorkerIds : WorkerGet(w)
    \/ \E w \in WorkerIds : WorkerStart(w)
    \/ \E w \in WorkerIds : WorkerProgress30(w)
    \/ \E w \in WorkerIds : WorkerRendered(w)
    \/ \E w \in WorkerIds, f \in FilePaths, n \in Filenames, z \in FileSizes :
            WorkerCompleted(w, f, n, z)
    \/ \E w \in WorkerIds, from \in WorkerStages, e \in Errors : WorkerFailed(w, from, e)
    \/ \E w \in WorkerIds, from \in WorkerStages : WorkerFailedUnrecorded(w, from)

SpecWorkers == Init /\ [][NextWorkers]_vars
\* a worker thread that can take a step takes it: the scheduler runs every
\* thread, get(timeout=1) returns, and a stage of the pipeline ends
WorkerRuns(w) ==
    \/ WorkerLoop(w)
    \/ WorkerGet(w)
    \/ WorkerStart(w)
    \/ WorkerProgress30(w)
    \/ WorkerRendered(w)
    \/ \E f \in FilePaths, n \in Filenames, z \in FileSizes : WorkerCompleted(w, f, n, z)

SpecShutdown ==
    /\ Init
    /\ [][NextWorkers]_vars
    /\ \A w \in WorkerIds : WF_vars(WorkerRuns(w))
    /\ WF_vars(StopWorkersReturn)

\* the pool is running and stop_workers is never called: jobs are created,
\* queued and processed, and every worker thread keeps being scheduled
NextProcessing ==
    \/ \E j \in JobIds, u \in JobOwners : CreateExportJobDb(j, u)
    \/ \E j \in JobIds : QueueExportJob(j)
    \/ \E w \in WorkerIds : WorkerLoop(w)
    \/ \E w \in WorkerIds : WorkerGet(w)
    \/ \E w \in WorkerIds : WorkerStart(w)
    \/ \E w \in WorkerIds : WorkerProgress30(w)
    \/ \E w \in WorkerIds : WorkerRendered(w)
    \/ \E w \in WorkerIds, f \in FilePaths, n \in Filenames, z \in FileSizes :
            WorkerCompleted(w, f, n, z)
    \/ \E w \in WorkerIds, from \in WorkerStages, e \in Errors : WorkerFailed(w, from, e)
    \/ \E w \in WorkerIds, from \in WorkerStages : WorkerFailedUnrecorded(w, from)

SpecProcessing ==
    /\ Init
    /\ [][NextProcessing]_vars
    /\ \A w \in WorkerIds : WF_vars(WorkerRuns(w))

SpecTwoFactor == Init /\ [][NextTwoFactor]_vars
SpecStore == Init /\ [][NextStore]_vars
SpecQueue == Init /\ [][NextQueue]_vars

(***************************************************************************)
(* Properties                                                              *)
(***************************************************************************)

\* C1: cancellation is terminal.  Once a job reads cancelled, in the
\* database or in the Redis entry the workers write, no later step (a
\* markCompleted or markFailed, the last write of a worker that was running
\* the job) changes its status or any of the fields that markCompleted and
\* markFailed write.
C1_CancelledIsTerminal ==
    [][\A j \in JobIds :
          /\ (j \in DOMAIN jobs /\ jobs[j].status = CANCELLED) =>
                /\ jobs'[j].status = CANCELLED
                /\ jobs'[j].file_path = jobs[j].file_path
                /\ jobs'[j].file_size = jobs[j].file_size
                /\ jobs'[j].filename = jobs[j].filename
                /\ jobs'[j].error_message = jobs[j].error_message
                /\ jobs'[j].retry_count = jobs[j].retry_count
                /\ jobs'[j].completed_at = jobs[j].completed_at
          /\ (j \in DOMAIN redis /\ redis[j].status = CANCELLED) =>
                redis'[j].status = CANCELLED]_vars

\* C2: every job whose status is completed, failed or cancelled has
\* progress 100, in the database and in the Redis entry.
C2_TerminalProgress ==
    /\ \A j \in DOMAIN jobs :
          jobs[j].status \in {COMPLETED, FAILED, CANCELLED} => jobs[j].progress = 100
    /\ \A j \in DOMAIN redis :
          redis[j].status \in {COMPLETED, FAILED, CANCELLED} => redis[j].progress = 100

\* C7: a backup code is single-use.  A verify whose code was accepted as a
\* backup code since the current batch was stored does not succeed, and
\* every code accepted that way is in the user's used-codes list.
C7_BackupCodeSingleUse ==
    /\ (tfa.last_op = "verify" /\ tfa.reuse) => tfa.last_outcome # "ok"
    /\ \A u \in Usernames :
          USERS[u].twoFactorEnabled =>
              tfa.consumed \subseteq SeqElems(USERS[u].twoFactorBackupCodesUsed)

C7_Witness ==
    /\ tfa.last_op = "verify"
    /\ tfa.reuse
    /\ tfa.last_outcome = "invalid"
    /\ \E u \in Usernames :
          /\ USERS[u].twoFactorEnabled
          /\ tfa.last_code \in SeqElems(decrypt_backup_codes(USERS[u].backupCodes))
          /\ tfa.last_code \in SeqElems(USERS[u].twoFactorBackupCodesUsed)

\* C8: after five failed verifications in a row that lie within 15 minutes,
\* a verify made within 15 minutes of the first of them is answered with
\* RateLimited, whatever the code; a successful verification leaves the
\* user's counter empty, and RateLimited is only returned after five
\* failures since the last success.
C8_RateLimit ==
    /\ (tfa.last_op = "verify" /\ tfa.five_recent) => tfa.last_outcome = "rate_limited"
    /\ (tfa.last_op = "verify" /\ tfa.last_outcome = "ok") =>
          \A u \in Usernames : USERS[u].id \notin DOMAIN rate_limit_storage
    /\ (tfa.last_op = "verify" /\ tfa.last_outcome = "rate_limited") =>
          Len(tfa.fail_times) = 5

C8_Witness ==
    /\ tfa.last_op = "verify"
    /\ tfa.five_recent
    /\ tfa.last_outcome = "rate_limited"
    /\ \E u \in Usernames :
          /\ USERS[u].twoFactorEnabled
          /\ tfa.last_code = TOTP(decrypt_secret(USERS[u].twoFactorSecret))

\* C9: the rate-limit window is measured from the first failure of the
\* streak: RateLimited is only returned when five failures were counted
\* within the 15 minutes that follow the first one.
C9_WindowFromFirstFailure ==
    (tfa.last_op = "verify" /\ tfa.last_outcome = "rate_limited") => tfa.window_full

\* C3: after 2FA is enabled or disabled for a user, no token issued to that
\* user before the change is accepted by authenticate, and none passes the
\* 2FA-verified gate.
C3_SessionsInvalidated ==
    ~(hist.last_op = "authenticate" /\ hist.pre_change /\ hist.last_outcome = "accepted")

\* C4: during the 30 minutes that follow the fifth failed login in a row the
\* account is locked, and every login of the user returns AccountLocked and
\* issues no tokens.
C4_Lockout ==
    /\ InLockWindow(hist, now) => \A u \in Usernames : is_account_locked(USERS[u], now)
    /\ (hist.last_op = "login" /\ hist.in_lock) =>
          (hist.last_outcome = "AccountLocked" /\ ~hist.tokens)

C6_SessionOnce ==
    /\ \A s \in SessionIds : hist.sess_tokens[s] <= 1
    /\ \A s \in SessionIds : hist.sess_tokens[s] > 0 => s \notin DOMAIN PENDING_2FA
    /\ \A r \in ReqIds : reqs[r].pc # "idle" => ~reqs[r].late
    /\ (hist.last_op = "complete" /\ hist.late) => hist.last_outcome = "SessionNotFound"

\* two calls verified the code of the same session; one got the tokens and
\* the other one failed on the deleted session
C6_Witness ==
    /\ hist.last_op = "complete"
    /\ hist.last_outcome = "KeyError"
    /\ hist.session # 0
    /\ hist.code_valid
    /\ hist.sess_tokens[hist.session] = 1

\* C10: the status of a job changes only along the edges pending ->
\* processing, processing -> completed, processing -> failed, pending or
\* processing -> cancelled, and failed -> pending.
C10_StatusEdges ==
    [][\A j \in DOMAIN jobs :
          (j \in DOMAIN jobs' /\ jobs'[j].status # jobs[j].status) =>
              <<jobs[j].status, jobs'[j].status>> \in
                  { <<PENDING, PROCESSING>>, <<PROCESSING, COMPLETED>>,
                    <<PROCESSING, FAILED>>, <<PENDING, CANCELLED>>,
                    <<PROCESSING, CANCELLED>>, <<FAILED, PENDING>> }]_vars

\* C11: retry is bounded.  Over any sequence of markFailed and retry calls
\* a job goes from failed back to pending at most max_retries times.
C11_RetryBounded ==
    \A j \in DOMAIN jobs : jhist.retries[j] <= jobs[j].max_retries

\* C12: after markFailed(job, error, allowRetry) a following retry returns
\* the job to pending exactly when allowRetry was true and retry_count <
\* max_retries held before the call; in that case retry_count went up by
\* one, and otherwise completed_at is set.
C12_MarkFailedEligibility ==
    [][(jhist'.last_op = "mark_failed" /\ jhist'.last_job \in DOMAIN jobs) =>
          LET j      == jhist'.last_job
              before == jobs[j]
              after  == jobs'[j]
              budget == jhist'.allow /\ before.retry_count < before.max_retries
              retried == retry_job(jobs', j, now)[j]
          IN  /\ (retried.status = PENDING) <=> budget
              /\ budget => after.retry_count = before.retry_count + 1
              /\ ~budget => (after.completed_at # NoTime /\ retried = after)]_vars

\* C13: retry on a failed job with retry_count < max_retries sets status
\* pending and progress 0, clears error_message, started_at and
\* completed_at, sets expires_at to now + 24h and leaves the other fields,
\* retry_count among them, as they were; on any other job it changes nothing.
C13_RetryEffect ==
    [][(jhist'.last_op = "retry" /\ jhist'.last_job \in DOMAIN jobs) =>
          LET j      == jhist'.last_job
              before == jobs[j]
              after  == jobs'[j]
          IN  IF before.status = FAILED /\ before.retry_count < before.max_retries
              THEN after = [before EXCEPT !.status = PENDING,
                                          !.progress = 0,
                                          !.error_message = NoStr,
                                          !.started_at = NoTime,
                                          !.completed_at = NoTime,
                                          !.expires_at = now + 1440]
              ELSE after = before]_vars

\* a retry at a later time than the creation returned a job that had failed
\* after it was started
C13_Witness ==
    /\ jhist.last_op = "retry"
    /\ jhist.last_job \in DOMAIN jobs
    /\ jhist.retries[jhist.last_job] >= 1
    /\ now > 0
    /\ LET job == jobs[jhist.last_job]
       IN  /\ job.status = PENDING
           /\ job.retry_count >= 1
           /\ job.error_message = NoStr
           /\ job.expires_at = now + 1440

\* C14: whatever stage of a job's pipeline raises, the job ends with status
\* failed and the error message recorded, the worker goes back to the
\* dequeue loop, and no worker is lost while the pool is running.
C14_FailureRecorded ==
    [][\A w \in WorkerIds :
          /\ (workers[w].pc \in WorkerStages /\ workers'[w].pc \notin WorkerStages
                 /\ workers'[w].last # "completed") =>
                /\ workers'[w].pc = "loop"
                /\ workers[w].job_data.id \in DOMAIN redis'
                /\ redis'[workers[w].job_data.id].status = FAILED
                /\ redis'[workers[w].job_data.id].error # NoStr
          /\ running' => workers'[w].pc # "stopped"]_vars

\* C15 (as stated): when stop_workers returns, all workers have exited.
C15_StopWaitsForAll ==
    stopping = "returned" => \A w \in WorkerIds : workers[w].pc = "stopped"

\* C15 (amended): stop_workers clears running and puts one poison pill per
\* worker into the queue; from then on a worker that comes back to the
\* loop test exits and an exited worker stays so; once stop_workers was
\* called every worker eventually exits. (stop_workers itself waits at most
\* five seconds per worker, so it can return before that.)
C15_GracefulShutdown ==
    /\ [][(stopping = "idle" /\ stopping' = "joining") =>
             /\ ~running'
             /\ Len(job_queue') = Len(job_queue) + Cardinality(WorkerIds)
             /\ \A i \in 1..Len(job_queue') :
                   job_queue'[i] = IF i <= Len(job_queue) THEN job_queue[i] ELSE PoisonPill]_vars
    /\ [][stopping # "idle" =>
             \A w \in WorkerIds :
                 /\ workers[w].pc = "loop" => workers'[w].pc \in {"loop", "stopped"}
                 /\ workers[w].pc = "stopped" => workers'[w].pc = "stopped"]_vars
    /\ (stopping # "idle") ~> (\A w \in WorkerIds : workers[w].pc = "stopped")

\* stop_workers returned while one worker was still executing a job, and
\* another one had exited
C15_Witness ==
    /\ stopping = "returned"
    /\ \E w \in WorkerIds : workers[w].pc \in WorkerStages
    /\ \E w \in WorkerIds : workers[w].pc = "stopped"

C17_UniformLoginFailure ==
    (/\ hist.last_op = "login"
     /\ ~hist.was_locked
     /\ ~hist.limited
     /\ \/ ~hist.pw_ok
        \/ hist.enabled /\ ~hist.no_code /\ ~hist.code_valid)
    => /\ login_error(hist.last_outcome) = login_error("InvalidCredentials")
       /\ login_status(hist.last_outcome) = login_status("InvalidCredentials")

\* C18: a login with a code, or a completion, that meets the rate limit of
\* the 2FA verification fails with an outcome of its own, not the one of an
\* invalid code.
C18_RateLimitedOutcome ==
    (hist.last_op \in {"login", "complete"} /\ hist.limited)
    => /\ hist.last_outcome = "RateLimited"
       /\ login_error(hist.last_outcome) # login_error("InvalidCode")

\* C19: in every reachable state the encrypted secret and the encrypted
\* backup codes of a user are both present when 2FA is enabled and both
\* absent when it is not.
C19_SecretIffEnabled ==
    \A u \in DOMAIN USERS :
        /\ (USERS[u].twoFactorSecret # <<>> /\ USERS[u].backupCodes # <<>>)
              <=> USERS[u].twoFactorEnabled
        /\ ~USERS[u].twoFactorEnabled =>
              (USERS[u].twoFactorSecret = <<>> /\ USERS[u].backupCodes = <<>>)

\* 2FA was enabled, a backup code was used, and the codes were regenerated
\* or 2FA disabled again
C19_Witness ==
    \E u \in DOMAIN USERS :
        /\ ~USERS[u].twoFactorEnabled
        /\ USERS[u].twoFactorSecret = <<>>
        /\ \E k \in issued : k.pre_change

\* C20: enable_2fa with a code that does not verify, and disable_2fa with a
\* wrong password, are rejected and leave the user's 2FA fields and the
\* stored sessions as they were.
C20_RejectedLeavesUnchanged ==
    [][/\ \A u \in Usernames, sec \in Secrets, c \in VerifyCodes, b \in BackupBatches :
            (c # TOTP(sec) /\ Enable2FA(u, sec, c, b)) =>
                /\ tfa'.last_op = "enable" /\ tfa'.last_outcome = "rejected"
                /\ USERS' = USERS
                /\ REFRESH_TOKENS' = REFRESH_TOKENS
       /\ \A u \in Usernames, pw \in Passwords :
            (pw # "user123" /\ Disable2FA(u, pw)) =>
                /\ tfa'.last_op = "disable" /\ tfa'.last_outcome = "rejected"
                /\ USERS' = USERS
                /\ REFRESH_TOKENS' = REFRESH_TOKENS]_vars

\* a disable with the wrong password was rejected while the user had 2FA
\* enabled and a stored session
C20_Witness ==
    /\ tfa.last_op = "disable"
    /\ tfa.last_outcome = "rejected"
    /\ \E u \in Usernames : USERS[u].twoFactorEnabled /\ USERS[u].backupCodes # <<>>
    /\ REFRESH_TOKENS # {}

\* C21: complete_2fa_login on a pending session whose expires_at has passed
\* fails as expired, issues no tokens whatever the code, and removes the
\* session; a removed session never comes back, and a call that names a
\* session that is not pending fails as not found.
C21_ExpiredSessionRemoved ==
    [][/\ \A r \in ReqIds :
            (/\ reqs[r].pc = "read"
             /\ reqs'[r].pc # "read"
             /\ reqs[r].session_id \in DOMAIN PENDING_2FA
             /\ now > PENDING_2FA[reqs[r].session_id].expires_at)
            => /\ hist'.last_op = "complete"
               /\ hist'.last_outcome = "SessionExpired"
               /\ ~hist'.tokens
               /\ REFRESH_TOKENS' = REFRESH_TOKENS
               /\ issued' = issued
               /\ reqs'[r].pc = "idle"
               /\ reqs[r].session_id \notin DOMAIN PENDING_2FA'
       /\ \A sid \in SessionIds :
            (sid <= hist.sessions /\ sid \notin DOMAIN PENDING_2FA)
            => /\ sid \notin DOMAIN PENDING_2FA'
               /\ (/\ \A r \in ReqIds : reqs[r].session_id # sid
                   /\ hist'.last_op = "complete" /\ hist'.session = sid /\ hist' # hist)
                     => hist'.last_outcome = "SessionNotFound"]_vars

\* a completion with the valid code met an expired session, which is gone
C21_Witness ==
    /\ hist.last_op = "complete"
    /\ hist.last_outcome = "SessionExpired"
    /\ hist.session \notin DOMAIN PENDING_2FA
    /\ hist.session >= 1
    /\ REFRESH_TOKENS = {}

\* C22: cleanup_expired_jobs deletes exactly the records whose expires_at is
\* before now, also when removing a file fails, returns their number and
\* leaves every other record as it was; a deleted id is not found again.
C22_CleanupExact ==
    [][/\ (jhist'.last_op = "cleanup" /\ now' = now) =>
            LET expired == {j \in DOMAIN jobs : jobs[j].expires_at < now}
            IN  /\ DOMAIN jobs' = DOMAIN jobs \ expired
                /\ \A j \in DOMAIN jobs' : jobs'[j] = jobs[j]
                /\ jhist'.count = Cardinality(expired)
       /\ \A j \in created : j \notin DOMAIN jobs => j \notin DOMAIN jobs']_vars

\* a cleanup removed one expired job whose file could not be removed and
\* kept the other job
C22_Witness ==
    /\ jhist.last_op = "cleanup"
    /\ jhist.count = 1
    /\ jhist.remove_failed
    /\ "j1" \in created /\ "j1" \notin DOMAIN jobs
    /\ "j2" \in DOMAIN jobs

\* C23: cancel changes a job only when it is pending or processing and the
\* requesting user, if given, owns it; it then sets status cancelled,
\* progress 100 and completed_at. In every other case the job (and its Redis
\* copy) is left unchanged and the call returns nothing, so that the service
\* does not report a cancellation.
C23_CancelFrame ==
    [][\A j \in JobIds, u \in {0} \cup JobUsers :
          LET allowed == /\ j \in DOMAIN jobs
                         /\ jobs[j].status \in {PENDING, PROCESSING}
                         /\ (u # 0 => jobs[j].user_id = u)
              told    == cancel_job_returns(jobs, j, u)
          IN  (CancelJob(j, u) \/ CancelExportJob(j, u)) =>
                 IF allowed
                 THEN /\ told
                      /\ jobs'[j] = [jobs[j] EXCEPT !.status = CANCELLED,
                                                    !.progress = 100,
                                                    !.completed_at = now]
                 ELSE /\ ~told
                      /\ jobs' = jobs
                      /\ redis' = redis]_vars

\* C27: after every job-state operation of the enhanced export service the
\* Redis copy of a job has the status and the progress of the database record.
C27_RedisMirrorsDatabase ==
    \A j \in DOMAIN jobs \cap DOMAIN redis :
        /\ redis[j].status = jobs[j].status
        /\ redis[j].progress = jobs[j].progress

\* C24: concurrent failed verifications of one user are all counted, and no
\* more than five of them complete before the rate limit answers.
C24_CounterSerialized ==
    /\ tfa.invalid_done <= RATE_LIMIT_ATTEMPTS
    /\ (\A r \in ReqIds : reqs[r].pc = "idle") =>
          \A u \in Usernames :
              tfa.invalid_done =
                  IF USERS[u].id \in DOMAIN rate_limit_storage
                  THEN rate_limit_storage[USERS[u].id].attempts ELSE 0

\* C29: a backup code is accepted by at most one of the verify calls, also
\* when they run at the same time.
C29_BackupCodeOnceConcurrent ==
    \A c \in BackupCodeNames : tfa.backup_ok[c] <= 1

\* C25: regenerate_backup_codes on a user with 2FA enabled stores the new
\* batch and empties the used list: a code of the old batch only is then
\* rejected by verify and each code of the new batch is accepted once. On a
\* user without 2FA the call is rejected and changes nothing.
C25_RegenerateReplaces ==
    [][\A u \in Usernames, b \in BackupBatches :
          RegenerateBackupCodes(u, b) =>
             IF USERS[u].twoFactorEnabled
             THEN LET user == USERS'[u]
                      old  == SeqElems(decrypt_backup_codes(USERS[u].backupCodes))
                      new  == SeqElems(b)
                  IN  /\ tfa'.last_op = "regenerate" /\ tfa'.last_outcome = "ok"
                      /\ user = [USERS[u] EXCEPT
                                    !.backupCodes = encrypt_backup_codes(b),
                                    !.twoFactorBackupCodesUsed = <<>>]
                      /\ \A c \in old \ new :
                            ~verify_2fa_code(user, c, <<>>, now).result
                      /\ \A c \in new :
                            LET v == verify_2fa_code(user, c, <<>>, now)
                            IN  /\ v.result
                                /\ ~verify_2fa_code(v.user, c, v.rl, now).result
             ELSE /\ USERS' = USERS
                  /\ tfa'.last_op = "regenerate" /\ tfa'.last_outcome = "rejected"]_vars

\* the codes were regenerated after a code of the old batch had been used
C25_Witness ==
    /\ tfa.last_op = "regenerate"
    /\ tfa.last_outcome = "ok"
    /\ \E u \in Usernames :
          /\ decrypt_backup_codes(USERS[u].backupCodes) = <<"B2", "B2">>
          /\ USERS[u].twoFactorBackupCodesUsed = <<>>

\* C26: a batch that generate_backup_codes returned (here: the one that
\* regenerate_backup_codes stored) has exactly count codes, pairwise distinct.
C26_BatchDistinct ==
    (tfa.last_op = "regenerate" /\ tfa.last_outcome = "ok") =>
        \A u \in Usernames :
            USERS[u].twoFactorEnabled =>
                LET b == decrypt_backup_codes(USERS[u].backupCodes)
                IN  /\ Len(b) = BatchCount
                    /\ \A i, j \in 1..Len(b) : i # j => b[i] # b[j]

\* C28: while the account is locked no call issues tokens for the user and
\* no call clears the lock; the lock ends only when lockedUntil is reached.
C28_LockHolds ==
    [][ /\ hist'.tokens => ~hist'.was_locked
        /\ \A u \in Usernames :
              (is_account_locked(USERS[u], now) /\ now' = now) =>
                  is_account_locked(USERS'[u], now') ]_vars

\* C30: with the pool running and never stopped, a job that queue_export_job
\* accepted (it waits in the queue or is in the hands of a worker) is taken
\* from the queue by exactly one worker, and its record eventually reads
\* completed or failed.
C30_AcceptedJobFinishes ==
    /\ [][ Len(job_queue') < Len(job_queue) =>
             \E w \in WorkerIds :
                /\ workers'[w].job_data = Head(job_queue)
                /\ \A v \in WorkerIds \ {w} : workers'[v] = workers[v] ]_vars
    /\ \A j \in JobIds :
          (/\ running
           /\ \/ \E i \in 1..Len(job_queue) : job_queue[i].id = j
              \/ \E w \in WorkerIds : /\ workers[w].pc \in WorkerStages
                                      /\ workers[w].job_data.id = j) ~>
              (j \in DOMAIN redis /\ redis[j].status \in {COMPLETED, FAILED})

====
